---------------------------- MODULE Spec2Model ----------------------------
(***************************************************************************)
(* A model of to_wps_interm.py: the conversion of gridded datasets into    *)
(* WPS intermediate files.                                                  *)
(*                                                                         *)
(* Time is counted in ticks of 1/TicksPerHour hour from the calendar hour  *)
(* in which the requested window starts.  A 2-D field is its values in     *)
(* the order the slab record stores them.  Fields are fully populated, so  *)
(* the two interpolate_na passes (lines 75-80) leave them as they are.     *)
(***************************************************************************)
EXTENDS Integers, Sequences, FiniteSets, TLC

\* ------------------------------------------------------------------ bounds
MaxTime == 2        \* last tick a window or a time axis may reach
TicksPerHour == 2   \* ticks in one hour (a tick is 30 minutes)
MaxFiles == 2       \* most datasets in nc_files
MaxRows == 2        \* most rows in the mapping table
MaxLev == 2         \* most levels on a pressure-level axis
MaxIOFaults == 1    \* most I/O errors (open, write, close) in one run

\* ------------------------------------------------------- program constants
IFV == 5                    \* line 83
SURFACE == 200100           \* line 69
EARTH_RADIUS == 6367470     \* line 113, in metres (6367470e-3 km)
XFCST == 0                  \* line 91
IPROJ == 0                  \* line 99
IS_WIND_EARTH_REL == 0      \* line 118
HDR_BYTES == 156            \* line 89: 24+4+32+9+25+46+4+4+4+4
GEO_BYTES == 28             \* line 107: 8+5*4
INT_BYTES == 4              \* lines 83, 118: one ">i"
F4_BYTES == 4               \* line 121: one ">f4"

\* ------------------------------------------------------------- input sets
Prefix == "FILE"
VarIds == {"ta", "ps"}
Units == {"K", "Pa"}
DimSets == {{}, {"time"}, {"time", "plev"}}
Intervals == {1, 2}
Lat == <<10, 12>>
Lon == <<0, 1>>

NaN == [finite |-> FALSE, value |-> 0]
Scales == {NaN, [finite |-> TRUE, value |-> 2]}

\* The unit and the values a source variable carries in every dataset.
UnitsOf(id) == IF id = "ta" THEN "K" ELSE "Pa"
ValuesOf(id) == IF id = "ta" THEN <<1, 2, 3, 4>> ELSE <<5, 6, 7, 8>>
WpsName(i) == IF i = 1 THEN "TT" ELSE IF i = 2 THEN "PSFC" ELSE "FIELD"
PlevValue(i) == 100000 - 15000 * i

\* Mapping tables: 1..MaxRows rows; row i names target field WpsName(i).
RowSet(i) ==
  [var_id : VarIds, wps_name : {WpsName(i)}, scale : Scales, units : Units]
Tables ==
  UNION {{t \in [1..n -> UNION {RowSet(i) : i \in 1..n}] :
            \A i \in 1..n : t[i] \in RowSet(i)} : n \in 1..MaxRows}

\* pd.date_range(start, end, freq): start, start+freq, ... up to end.
date_range(start, end, freq) ==
  IF end < start THEN <<>>
  ELSE [k \in 1..((end - start) \div freq + 1) |-> start + (k - 1) * freq]

\* Time axes of datasets: sampled every f ticks from t0 up to MaxTime.
TimeAxes == {date_range(t0, MaxTime, f) : t0 \in 0..MaxTime, f \in Intervals}
PlevAxes == {[k \in 1..MaxLev |-> PlevValue(k)]}
VarLists == {<<"ta">>, <<"ps">>, <<"ta", "ps">>, <<"ps", "ta">>}

\* A dataset as xr.open_dataset returns it: its dimensions and axes.  The
\* names of its variables are read when the loop over them starts.
Datasets ==
  {[dims |-> d,
    time |-> IF "time" \in d THEN ax ELSE <<>>,
    plev |-> IF "plev" \in d THEN lv ELSE <<>>,
    vars |-> <<>>] : d \in DimSets, ax \in TimeAxes, lv \in PlevAxes}
NoDataset == [dims |-> {}, time |-> <<>>, plev |-> <<>>, vars |-> <<>>]

\* ds[var_name].  "ta" is an upper-air variable: it spans every dimension of
\* its dataset, and in a dataset without a plev dimension it carries the
\* level it was taken at as a scalar plev coordinate.  "ps" is a surface
\* variable: it has no plev dimension and no plev coordinate.
DimsOf(d, id) == IF id = "ta" THEN d.dims ELSE d.dims \ {"plev"}
DataArray(d, id) ==
  [id |-> id, dims |-> DimsOf(d, id),
    time |-> IF "time" \in DimsOf(d, id) THEN d.time ELSE <<>>,
    plev |-> IF id # "ta" THEN <<>>
             ELSE IF "plev" \in d.dims THEN d.plev ELSE <<PlevValue(1)>>,
    hasplev |-> (id = "ta"),
    units |-> UnitsOf(id), values |-> ValuesOf(id)]
NoData ==
  [id |-> "", dims |-> {}, time |-> <<>>, plev |-> <<>>, hasplev |-> FALSE,
   units |-> "", values |-> <<>>]

VARIABLES
  model_conf, start_date, end_date, interval, nc_files,
  pc, i_file, ds, i_var, var, data, i_row, i_time, i_plev,
  files, handles, disk, exc, issued, skipped, io_faults

vars ==
  <<model_conf, start_date, end_date, interval, nc_files,
    pc, i_file, ds, i_var, var, data, i_row, i_time, i_plev,
    files, handles, disk, exc, issued, skipped, io_faults>>


\* ------------------------------------------------------- FileInventory
\* The inventory with the files it has opened: files is FileInventory._files
\* (a dict, in insertion order), handles the file objects open() returned
\* (closes counts the completed close() calls of each), disk the content of
\* the named files.
Inventory == [files |-> files, handles |-> handles, disk |-> disk]

Cached(inv, filename) == \E i \in 1..Len(inv.files) : inv.files[i].name = filename
Lookup(inv, filename) ==
  inv.files[CHOOSE i \in 1..Len(inv.files) : inv.files[i].name = filename].fp

\* open(filename, "wb"): a new file object on a created or truncated file.
open(inv, filename) ==
  [inv EXCEPT !.handles = Append(@, [name |-> filename, closes |-> 0]),
              !.disk = [n \in DOMAIN @ \cup {filename} |->
                          IF n = filename THEN <<>> ELSE @[n]]]

\* A get that does not consult the cache: it opens on every call.
get_reopens(inv, filename) ==
  LET o == open(inv, filename)
      fp == Len(o.handles)
  IN [inv |-> [o EXCEPT !.files = Append(@, [name |-> filename, fp |-> fp])],
      fp |-> fp]

\* FileInventory.get
get(inv, filename) ==
  IF Cached(inv, filename)
  THEN [inv |-> inv, fp |-> Lookup(inv, filename)]
  ELSE LET o == open(inv, filename)
           fp == Len(o.handles)
       IN [inv |-> [o EXCEPT !.files = Append(@, [name |-> filename, fp |-> fp])],
           fp |-> fp]

\* FileInventory.close_all: closes in the cache's order; the close of the
\* failAt-th file raises (0: none does), which ends the loop before the
\* cache is cleared.
close_all(inv, failAt) ==
  LET n == IF failAt = 0 THEN Len(inv.files) ELSE failAt
      closed == {inv.files[i].fp : i \in 1..n}
      hs == [h \in DOMAIN inv.handles |->
               IF h \in closed
               THEN [inv.handles[h] EXCEPT !.closes = @ + 1]
               ELSE inv.handles[h]]
  IN [inv EXCEPT !.handles = hs,
                 !.files = IF failAt = 0 THEN <<>> ELSE @]

\* ------------------------------------------------------- record framing
\* A write that puts the record at the head of the file, not at its end.
write_fortran_record_front(inv, fp, nbytes, payload, call) ==
  [inv EXCEPT !.disk[inv.handles[fp].name] =
     <<[head |-> nbytes, payload |-> payload, tail |-> nbytes,
        call |-> call]>> \o @]

\* write_fortran_record: the length, the payload, the length again.  call is
\* the number of the to_wps_interm call that wrote the record (provenance,
\* not bytes of the file).
write_fortran_record(inv, fp, nbytes, payload, call) ==
  [inv EXCEPT !.disk[inv.handles[fp].name] =
     Append(@, [head |-> nbytes, payload |-> payload, tail |-> nbytes,
                call |-> call])]

\* ------------------------------------------------------- to_wps_interm
\* time.strftime('%Y-%m-%d_%H'): the hour the tick lies in.
HourOf(time) == time \div TicksPerHour
\* f"{prefix}:{time.strftime('%Y-%m-%d_%H')}"
FileName(prefix, time) == <<prefix, HourOf(time)>>
\* A header date that keeps the minutes of the valid time.
HDate_exact(time) == time

\* time.strftime("%Y-%m-%d_%H:00:00"): the tick at which that hour starts.
HDate(time) == HourOf(time) * TicksPerHour

\* The level of a slice (lines 66-69).
XLVL(slice) == IF slice.hasplev THEN slice.plev[1] ELSE SURFACE

\* The five payloads with the header ahead of the version tag.
Payloads_header_first(slice, var_name, time) ==
  << [rec |-> "HDR", nbytes |-> HDR_BYTES, hdate |-> HDate(time),
      xfcst |-> XFCST, map_source |-> "CMIP6", field |-> var_name,
      units |-> slice.units, xlvl |-> XLVL(slice),
      nx |-> Len(Lon), ny |-> Len(Lat), iproj |-> IPROJ],
     [rec |-> "IFV", nbytes |-> INT_BYTES, ifv |-> IFV],
     [rec |-> "GEO", nbytes |-> GEO_BYTES, startloc |-> "SWCORNER",
      startlat |-> Lat[1], startlon |-> Lon[1],
      deltalat |-> Lat[2] - Lat[1], deltalon |-> Lon[2] - Lon[1],
      earth_radius |-> EARTH_RADIUS],
     [rec |-> "WIND", nbytes |-> INT_BYTES, flag |-> IS_WIND_EARTH_REL],
     [rec |-> "SLAB", nbytes |-> Len(Lon) * Len(Lat) * F4_BYTES,
      values |-> slice.values] >>

\* The five payloads of one slab, in the order they are written.
Payloads(slice, var_name, time) ==
  << [rec |-> "IFV", nbytes |-> INT_BYTES, ifv |-> IFV],
     [rec |-> "HDR", nbytes |-> HDR_BYTES, hdate |-> HDate(time),
      xfcst |-> XFCST, map_source |-> "CMIP6", field |-> var_name,
      units |-> slice.units, xlvl |-> XLVL(slice),
      nx |-> Len(Lon), ny |-> Len(Lat), iproj |-> IPROJ],
     [rec |-> "GEO", nbytes |-> GEO_BYTES, startloc |-> "SWCORNER",
      startlat |-> Lat[1], startlon |-> Lon[1],
      deltalat |-> Lat[2] - Lat[1], deltalon |-> Lon[2] - Lon[1],
      earth_radius |-> EARTH_RADIUS],
     [rec |-> "WIND", nbytes |-> INT_BYTES, flag |-> IS_WIND_EARTH_REL],
     [rec |-> "SLAB", nbytes |-> Len(Lon) * Len(Lat) * F4_BYTES,
      values |-> slice.values] >>

\* What may go wrong in one call: 0 nothing; j in 1..5 the write of record j
\* raises OSError; 6 open() raises OSError; 7 struct.pack of the header
\* raises, a text of the header (field name, units, standard_name) being
\* absent or not ASCII.
Faults == 0..7
NoFault == 0
OpenFault == 6
PackFault == 7
IOFaults == 1..6

\* The first record that is not written, 6 when all five are, and the
\* exception raised there.  The header is packed after record 1 is written.
FirstFailure(fault) ==
  IF fault \in 1..5 THEN fault ELSE IF fault = PackFault THEN 2 ELSE 6
Raised(fault) ==
  IF fault \in 1..5 THEN "OSError"
  ELSE IF fault = PackFault THEN "PackError" ELSE "none"

RECURSIVE WriteRecords(_, _, _, _, _)
WriteRecords(inv, fp, payloads, n, call) ==
  IF n = 0 THEN inv
  ELSE write_fortran_record(WriteRecords(inv, fp, payloads, n - 1, call),
                            fp, payloads[n].nbytes, payloads[n], call)

\* to_wps_interm: the inventory after the call and the exception it raised.
to_wps_interm(inv, slice, var_name, prefix, time, fault, call) ==
  IF fault = OpenFault /\ ~Cached(inv, FileName(prefix, time))
  THEN [inv |-> inv, exc |-> "OSError"]
  ELSE LET g == get(inv, FileName(prefix, time))
           j == FirstFailure(fault)
       IN [inv |-> WriteRecords(g.inv, g.fp, Payloads(slice, var_name, time),
                                j - 1, call),
           exc |-> Raised(fault)]

\* ------------------------------------------------- convert_single_file
InWindow(axis, start, end) ==
  SelectSeq(axis, LAMBDA t : start <= t /\ t <= end)
Elems(seq) == {seq[k] : k \in 1..Len(seq)}

\* A selection without the test of lines 138-141 for an empty window.
select_status_unfiltered(d, start, end, freq) ==
  IF "time" \notin d.dims THEN "static"
  ELSE IF Elems(date_range(start, end, freq))
            \subseteq Elems(InWindow(d.time, start, end))
       THEN "selected" ELSE "missing"

\* Lines 137-144: "static" without a time dimension, "empty" when no stamp
\* of the axis lies in [start, end], "missing" when a requested stamp is not
\* on the axis (ds.sel raises KeyError), else "selected".
select_status(d, start, end, freq) ==
  IF "time" \notin d.dims THEN "static"
  ELSE IF InWindow(d.time, start, end) = <<>> THEN "empty"
  ELSE IF Elems(date_range(start, end, freq))
            \subseteq Elems(InWindow(d.time, start, end))
       THEN "selected" ELSE "missing"
\* The dataset after ds.sel(time=pd.date_range(start, end, freq)).
select_time(d, start, end, freq) ==
  IF "time" \in d.dims
  THEN [d EXCEPT !.time = date_range(start, end, freq)] ELSE d

\* model_conf[model_conf["var_id"] == var_name]
out_vars(conf, var_name) == SelectSeq(conf, LAMBDA r : r.var_id = var_name)

\* Lines 160-168: a finite scale multiplies the values and sets the unit.
Times(values, s) == [k \in DOMAIN values |-> values[k] * s]
apply_scale(a, var_conf) ==
  IF var_conf.scale.finite
  THEN [a EXCEPT !.values = Times(@, var_conf.scale.value),
                 !.units = var_conf.units]
  ELSE a

\* A units check that lets every unit pass.
units_never_mismatch(a, var_conf) == FALSE

\* Line 170
units_mismatch(a, var_conf) == a.units # var_conf.units

\* Lines 180-184 and 187: data.plev is read for the log line when the
\* dataset has a plev dimension, and data.time for the loop when it has a
\* time dimension; a variable without that coordinate has no such attribute.
attribute_missing(d, a) ==
  "time" \in d.dims /\ (("plev" \in d.dims /\ ~a.hasplev) \/ "time" \notin a.dims)

\* data.isel(time=i_time, plev=i_plev), data.isel(time=i_time), or data.
isel(d, a, it, ip) ==
  IF "time" \notin d.dims THEN a
  ELSE IF "plev" \in a.dims
       THEN [a EXCEPT !.dims = {}, !.time = <<a.time[it]>>, !.plev = <<a.plev[ip]>>]
       ELSE [a EXCEPT !.dims = {}, !.time = <<a.time[it]>>]

\* The valid time of a call: the slice's own, or the stamp of the window.
StampOf(d, a, it) ==
  IF "time" \in d.dims THEN a.time[it]
  ELSE date_range(start_date, end_date, interval)[it]

\* The sizes of the two loops of lines 187-212.
NTimes(d, a) ==
  IF "time" \in d.dims THEN Len(a.time)
  ELSE Len(date_range(start_date, end_date, interval))
NLevels(d, a) ==
  IF "time" \in d.dims /\ "plev" \in a.dims THEN Len(a.plev) ELSE 1

\* --------------------------------------------------------------- control
Idle ==
  /\ ds' = NoDataset /\ i_var' = 0 /\ var' = NoData /\ data' = NoData
  /\ i_row' = 0 /\ i_time' = 0 /\ i_plev' = 0

\* The next element of nc_files, or the end of the with block.
NextDataset ==
  /\ i_file' = i_file + 1
  /\ pc' = IF i_file + 1 > nc_files THEN "exit" ELSE "file"
  /\ Idle

\* The next variable of the dataset, or ds.close() and the next dataset.
NextVariable ==
  IF i_var < Len(ds.vars)
  THEN /\ pc' = "var" /\ i_var' = i_var + 1
       /\ var' = NoData /\ data' = NoData
       /\ i_row' = 0 /\ i_time' = 0 /\ i_plev' = 0
       /\ UNCHANGED <<i_file, ds>>
  ELSE NextDataset

\* The next matching row, or the next variable.
NextRow ==
  IF i_row < Len(out_vars(model_conf, var.id))
  THEN /\ pc' = "row" /\ i_row' = i_row + 1 /\ i_time' = 0 /\ i_plev' = 0
       /\ UNCHANGED <<i_file, ds, i_var, var, data>>
  ELSE NextVariable

\* An exception raised with the inventory as inv leaves the with block:
\* FileInventory.__exit__ closes the files, and a close that raises replaces
\* the exception.
Raise(inv, e, faults) ==
  /\ \E failAt \in 0..Len(inv.files) :
       /\ failAt > 0 => faults < MaxIOFaults
       /\ LET c == close_all(inv, failAt) IN
            files' = c.files /\ handles' = c.handles /\ disk' = c.disk
       /\ exc' = IF failAt > 0 THEN "OSError" ELSE e
       /\ io_faults' = IF failAt > 0 THEN faults + 1 ELSE faults
  /\ pc' = "done"
  /\ UNCHANGED <<i_file, ds, i_var, var, i_row, i_time, i_plev>>

inputs == <<model_conf, start_date, end_date, interval, nc_files>>
sinks == <<files, handles, disk>>

Init ==
  /\ model_conf \in Tables
  /\ start_date \in 0..(TicksPerHour - 1)
  /\ end_date \in start_date..MaxTime
  /\ interval \in Intervals
  /\ nc_files \in 1..MaxFiles
  /\ pc = "file" /\ i_file = 1
  /\ ds = NoDataset /\ i_var = 0 /\ var = NoData /\ data = NoData
  /\ i_row = 0 /\ i_time = 0 /\ i_plev = 0
  /\ files = <<>> /\ handles = <<>> /\ disk = <<>>
  /\ exc = "none" /\ issued = <<>> /\ skipped = {}
  /\ io_faults = 0

\* Lines 134-135: xr.open_dataset(nc_file).
ReadDataset ==
  /\ pc = "file"
  /\ ds' \in Datasets
  /\ pc' = "select"
  /\ UNCHANGED <<inputs, sinks, exc, issued, skipped, io_faults, i_file,
                 i_var, var, data, i_row, i_time, i_plev>>

\* Lines 137-141: the dataset has no stamp in the window; this is logged
\* and the dataset left.
SkipEmpty ==
  /\ pc = "select"
  /\ select_status(ds, start_date, end_date, interval) = "empty"
  /\ skipped' = skipped \cup {i_file}
  /\ NextDataset
  /\ UNCHANGED <<inputs, sinks, exc, issued, io_faults>>

\* Lines 137-144: a requested stamp is not on the time axis.
SelectMissing ==
  /\ pc = "select"
  /\ select_status(ds, start_date, end_date, interval) = "missing"
  /\ Raise(Inventory, "KeyError", io_faults)
  /\ UNCHANGED <<inputs, issued, skipped, data>>

\* Lines 137-146: the stamps of the window are selected and the loop over
\* the variables entered.
SelectTimes ==
  /\ pc = "select"
  /\ select_status(ds, start_date, end_date, interval)
       \in {"static", "selected"}
  /\ \E vs \in VarLists :
       ds' = [select_time(ds, start_date, end_date, interval)
                EXCEPT !.vars = vs]
  /\ pc' = "var" /\ i_var' = 1
  /\ UNCHANGED <<inputs, sinks, exc, issued, skipped, io_faults, i_file,
                 var, data, i_row, i_time, i_plev>>

\* Lines 147-149: no row of the table names the variable.
SkipUnmapped ==
  /\ pc = "var"
  /\ out_vars(model_conf, ds.vars[i_var]) = <<>>
  /\ NextVariable
  /\ UNCHANGED <<skipped, io_faults, inputs, sinks, exc, issued>>

\* Lines 147-152: data = ds[var_name], and the loop over its rows entered.
LoadVariable ==
  /\ pc = "var"
  /\ out_vars(model_conf, ds.vars[i_var]) # <<>>
  /\ var' = DataArray(ds, ds.vars[i_var])
  /\ data' = DataArray(ds, ds.vars[i_var])
  /\ pc' = "row" /\ i_row' = 1
  /\ UNCHANGED <<skipped, io_faults, inputs, sinks, exc, issued, i_file, ds, i_var, i_time, i_plev>>

\* The row at hand and data after its scale step.
VarConf == out_vars(model_conf, var.id)[i_row]
Scaled == apply_scale(data, VarConf)

\* Lines 160-177: the unit after the scale step is not the row's.
UnitsMismatch ==
  /\ pc = "row"
  /\ units_mismatch(Scaled, VarConf)
  /\ data' = Scaled
  /\ Raise(Inventory, "UnitsMismatch", io_faults)
  /\ UNCHANGED <<skipped, inputs, issued>>

\* Lines 160-187: a coordinate the row's log line or loop reads is absent.
AttributeMissing ==
  /\ pc = "row"
  /\ ~units_mismatch(Scaled, VarConf)
  /\ attribute_missing(ds, Scaled)
  /\ data' = Scaled
  /\ Raise(Inventory, "AttributeError", io_faults)
  /\ UNCHANGED <<skipped, inputs, issued>>

\* Lines 160-187: the row is scaled and checked, and its loops entered.
ScaleRow ==
  /\ pc = "row"
  /\ ~units_mismatch(Scaled, VarConf)
  /\ ~attribute_missing(ds, Scaled)
  /\ data' = Scaled
  /\ pc' = "emit" /\ i_time' = 1 /\ i_plev' = 1
  /\ UNCHANGED <<skipped, io_faults, inputs, sinks, exc, issued, i_file, ds, i_var, var, i_row>>

\* The call of lines 190, 197 or 206 at hand, as the log of calls keeps it:
\* its arguments, the dataset and row it was made for, and how it ended.
CallTime == StampOf(ds, data, i_time)
Call(e) ==
  [name |-> FileName(Prefix, CallTime), file |-> i_file, i_var |-> i_var,
   row |-> i_row, i_time |-> i_time, i_plev |-> i_plev, time |-> CallTime,
   conf |-> VarConf, src |-> var, timed |-> "time" \in ds.dims,
   levels |-> ds.plev, exc |-> e]
Result(fault) ==
  to_wps_interm(Inventory, isel(ds, data, i_time, i_plev), VarConf.wps_name,
                Prefix, CallTime, fault, Len(issued) + 1)

\* One to_wps_interm call that returns, and the step of the loops after it.
Encode ==
  /\ pc = "emit"
  /\ LET r == Result(NoFault) IN
       /\ r.exc = "none"
       /\ files' = r.inv.files /\ handles' = r.inv.handles /\ disk' = r.inv.disk
  /\ issued' = Append(issued, Call("none"))
  /\ IF i_plev < NLevels(ds, data)
     THEN /\ i_plev' = i_plev + 1
          /\ UNCHANGED <<pc, i_file, ds, i_var, var, data, i_row, i_time>>
     ELSE IF i_time < NTimes(ds, data)
          THEN /\ i_time' = i_time + 1 /\ i_plev' = 1
               /\ UNCHANGED <<pc, i_file, ds, i_var, var, data, i_row>>
          ELSE NextRow
  /\ UNCHANGED <<skipped, io_faults, inputs, exc>>

\* One to_wps_interm call that raises.  The texts of the header are those of
\* the row, so its packing can fail at the row's first call only.
EncodeFails ==
  /\ pc = "emit"
  /\ \E fault \in Faults :
       LET r == Result(fault) IN
         /\ r.exc # "none"
         /\ fault \in IOFaults => io_faults < MaxIOFaults
         /\ fault = PackFault => i_time = 1 /\ i_plev = 1
         /\ Raise(r.inv, r.exc,
                  IF fault \in IOFaults THEN io_faults + 1 ELSE io_faults)
         /\ issued' = Append(issued, Call(r.exc))
  /\ UNCHANGED <<skipped, inputs, data>>

\* FileInventory.__exit__ (lines 32-33) after the last dataset, every close
\* succeeding.
Exit ==
  /\ pc = "exit"
  /\ LET inv == close_all(Inventory, 0) IN
       files' = inv.files /\ handles' = inv.handles /\ disk' = inv.disk
  /\ pc' = "done"
  /\ UNCHANGED <<skipped, io_faults, inputs, exc, issued, i_file, ds, i_var, var, data, i_row,
                 i_time, i_plev>>

\* FileInventory.__exit__ after the last dataset, one close raising.
ExitFails ==
  /\ pc = "exit"
  /\ io_faults < MaxIOFaults
  /\ \E failAt \in 1..Len(files) :
       LET inv == close_all(Inventory, failAt) IN
         files' = inv.files /\ handles' = inv.handles /\ disk' = inv.disk
  /\ io_faults' = io_faults + 1
  /\ exc' = "OSError"
  /\ pc' = "done"
  /\ UNCHANGED <<skipped, inputs, issued, i_file, ds, i_var, var, data, i_row,
                 i_time, i_plev>>

Next ==
  \/ ReadDataset \/ SkipEmpty \/ SelectMissing \/ SelectTimes
  \/ SkipUnmapped \/ LoadVariable
  \/ UnitsMismatch \/ AttributeMissing \/ ScaleRow
  \/ Encode \/ EncodeFails
  \/ Exit \/ ExitFails

Spec == Init /\ [][Next]_vars

\* ============================================================ properties
\* What the formulas below read off the files and the log of calls.
Succeeded == {k \in 1..Len(issued) : issued[k].exc = "none"}
KeyOf(c) == <<Prefix, c.time \div TicksPerHour>>
Positions(n, k) == {i \in 1..Len(disk[n]) : disk[n][i].call = k}
RecordOf(k, rec) ==
  LET n == KeyOf(issued[k])
  IN disk[n][CHOOSE i \in Positions(n, k) : disk[n][i].payload.rec = rec].payload
RecOrder == <<"IFV", "HDR", "GEO", "WIND", "SLAB">>
RecBytes == <<4, 156, 28, 4, 4 * Len(Lon) * Len(Lat)>>
Ascending(S) == SelectSeq([k \in 1..Len(issued) |-> k], LAMBDA k : k \in S)
SlabCalls(n) ==
  LET slabs == SelectSeq(disk[n], LAMBDA r : r.payload.rec = "SLAB")
  IN [i \in 1..Len(slabs) |-> slabs[i].call]
Triple(c) == <<c.file, c.i_var, c.row>>
RowCalls(t) == {k \in 1..Len(issued) : Triple(issued[k]) = t}
Rows == {Triple(issued[k]) : k \in 1..Len(issued)}
\* The rows whose loops have ended without an exception.
Completed ==
  {t \in Rows : /\ ~(pc = "emit" /\ t = <<i_file, i_var, i_row>>)
                /\ RowCalls(t) \subseteq Succeeded}
Stamps == date_range(start_date, end_date, interval)

\* C1: when the run has ended, on whatever path, every file that was opened
\* has been closed exactly once and the cache is empty.
C1_AllClosedAtEnd ==
  pc = "done" =>
    /\ files = <<>>
    /\ \A h \in 1..Len(handles) : handles[h].closes = 1

\* C2: until close_all, every key has been opened at most once, the cache
\* holds that one open file for it, no file has been closed, and the five
\* records of every call that returned are still in its file.
C2_OneOpenSinkPerKey ==
  pc # "done" =>
    /\ \A h \in 1..Len(handles) : handles[h].closes = 0
    /\ \A g, h \in 1..Len(handles) :
         handles[g].name = handles[h].name => g = h
    /\ Len(files) = Len(handles)
    /\ \A i \in 1..Len(files) :
         files[i].fp = i /\ files[i].name = handles[i].name
    /\ \A k \in Succeeded :
         /\ KeyOf(issued[k]) \in DOMAIN disk
         /\ Cardinality(Positions(KeyOf(issued[k]), k)) = 5
C2_KeyRequestedAgain ==
  /\ pc # "done"
  /\ \E k, l \in Succeeded :
       k < l /\ KeyOf(issued[k]) = KeyOf(issued[l])

\* C3: the records of every call that returned are five consecutive framed
\* records of the file keyed by the prefix and the hour of its valid time,
\* in the order version tag 5, header, geometry, wind flag 0, slab, and in
\* no other file.
C3_FiveRecordsInOrder ==
  \A k \in Succeeded :
    LET n == KeyOf(issued[k]) IN
      /\ n \in DOMAIN disk
      /\ \A m \in DOMAIN disk \ {n} : Positions(m, k) = {}
      /\ LET pos == Positions(n, k) IN
           /\ pos # {}
           /\ LET p == CHOOSE q \in pos : \A r \in pos : q <= r IN
                /\ pos = p..(p + 4)
                /\ \A j \in 1..5 :
                     /\ disk[n][p + j - 1].payload.rec = RecOrder[j]
                     /\ disk[n][p + j - 1].head = RecBytes[j]
                     /\ disk[n][p + j - 1].tail = RecBytes[j]
                /\ disk[n][p].payload.ifv = 5
                /\ disk[n][p + 3].payload.flag = 0
C3_SlabAfterSlab ==
  \E n \in DOMAIN disk :
    /\ Len(disk[n]) >= 10
    /\ disk[n][Len(disk[n])].call \in Succeeded
    /\ disk[n][Len(disk[n])].call # disk[n][1].call

\* The position of a call in the order dataset, variable, row, time, level.
Position(c) == <<c.file, c.i_var, c.row, c.i_time, c.i_plev>>
LexLess(a, b) ==
  \E i \in 1..Len(a) : a[i] < b[i] /\ \A j \in 1..(i - 1) : a[j] = b[j]

\* C4: every file holds the slabs of exactly the calls made for its key that
\* returned, in the order the calls were made, and the calls are made in the
\* order dataset, variable, mapping row, time stamp (ascending), level.
C4_SinkOrderIsCallOrder ==
  /\ \A n \in DOMAIN disk :
       SlabCalls(n) = Ascending({k \in Succeeded : KeyOf(issued[k]) = n})
  /\ \A k \in Succeeded : KeyOf(issued[k]) \in DOMAIN disk
  /\ \A k, l \in 1..Len(issued) :
       k < l =>
         /\ LexLess(Position(issued[k]), Position(issued[l]))
         /\ Triple(issued[k]) = Triple(issued[l])
              /\ issued[k].i_time < issued[l].i_time
              => issued[k].time < issued[l].time
C4_SinkSharedByDatasets ==
  /\ pc = "done" /\ exc = "none"
  /\ \E n \in DOMAIN disk :
       /\ \E k, l \in Succeeded :
            /\ KeyOf(issued[k]) = n /\ KeyOf(issued[l]) = n
            /\ issued[k].file # issued[l].file
       /\ \E k, l \in Succeeded :
            /\ KeyOf(issued[k]) = n /\ KeyOf(issued[l]) = n
            /\ issued[k].file = issued[l].file
            /\ issued[k].i_var # issued[l].i_var
  /\ \E n \in DOMAIN disk : Len(SlabCalls(n)) < Cardinality(Succeeded)

\* The calls of a completed row, in the order they were made, as pairs of
\* the time stamp and the level written in the header.
RowSeq(t) == Ascending(RowCalls(t))
Written(k) == <<issued[k].time, RecordOf(k, "HDR").xlvl>>
HasPlevAxis(c) == "plev" \in c.src.dims

\* C5: a completed row of a variable with a time axis of T selected stamps
\* and a pressure-level axis of M levels has made T*M calls, one per pair,
\* the levels of a stamp before the next stamp; one of a variable with a
\* time axis and no pressure-level axis has made T calls, one per stamp,
\* each at the surface level; and no row of a variable with a time axis is
\* abandoned for a missing attribute.
C5_TimeLevelFanOut ==
  /\ \A t \in Completed :
       LET ks == RowSeq(t)
           c == issued[ks[1]]
           T == Len(Stamps)
           M == Len(c.levels)
       IN c.timed =>
            IF HasPlevAxis(c)
            THEN /\ Len(ks) = T * M
                 /\ \A i \in 1..Len(ks) :
                      Written(ks[i]) =
                        <<Stamps[((i - 1) \div M) + 1], c.levels[((i - 1) % M) + 1]>>
            ELSE /\ Len(ks) = T
                 /\ \A i \in 1..Len(ks) :
                      Written(ks[i]) = <<Stamps[i], SURFACE>>
  /\ ~(pc = "done" /\ exc = "AttributeError" /\ "time" \in data.dims)

\* C6 as stated: a completed row of a dataset without a time dimension has
\* made K calls, K the number of stamps of the window, all with the same
\* slab values and no two with the same valid time in the header.
C6_DistinctHeaders ==
  \A t \in Completed :
    LET ks == RowSeq(t) IN
      ~issued[ks[1]].timed =>
        /\ Len(ks) = Len(Stamps)
        /\ \A i, j \in 1..Len(ks) :
             /\ RecordOf(ks[i], "SLAB").values = RecordOf(ks[j], "SLAB").values
             /\ i # j => RecordOf(ks[i], "HDR").hdate # RecordOf(ks[j], "HDR").hdate

\* C6 as amended: such a row has made K calls, all with the same slab
\* values, the i-th with the i-th stamp of the window truncated to the hour
\* as the valid time in its header; so two headers differ exactly when their
\* stamps lie in different hours, as all do when the interval is an hour or
\* more.
C6_HeadersByHour ==
  \A t \in Completed :
    LET ks == RowSeq(t) IN
      ~issued[ks[1]].timed =>
        /\ Len(ks) = Len(Stamps)
        /\ LET hdate == [i \in 1..Len(ks) |-> RecordOf(ks[i], "HDR").hdate]
               slab == [i \in 1..Len(ks) |-> RecordOf(ks[i], "SLAB").values]
           IN \A i, j \in 1..Len(ks) :
                /\ slab[i] = slab[j]
                /\ hdate[i] =
                     ((start_date + (i - 1) * interval) \div TicksPerHour)
                       * TicksPerHour
                /\ (hdate[i] = hdate[j])
                     <=> (Stamps[i] \div TicksPerHour = Stamps[j] \div TicksPerHour)
                /\ interval >= TicksPerHour /\ i # j => hdate[i] # hdate[j]
C6_StaticRowWithinOneHour ==
  \E t \in Completed :
    LET ks == RowSeq(t) IN
      /\ ~issued[ks[1]].timed
      /\ Len(ks) >= 2
      /\ RecordOf(ks[1], "HDR").hdate = RecordOf(ks[2], "HDR").hdate

\* C7: the slab of every call that returned holds the source variable's
\* values times the scale of the call's row, under the row's unit, when the
\* scale is finite; and the source values as they are when the row has no
\* scale and the source unit is the row's.
C7_ScaleOfRowAlone ==
  \A k \in Succeeded :
    LET c == issued[k] IN
      /\ c.conf.scale.finite =>
           /\ RecordOf(k, "SLAB").values =
                [i \in DOMAIN c.src.values |->
                   c.src.values[i] * c.conf.scale.value]
           /\ RecordOf(k, "HDR").units = c.conf.units
      /\ ~c.conf.scale.finite /\ c.src.units = c.conf.units =>
           RecordOf(k, "SLAB").values = c.src.values

\* C8: a row whose unit after the scale step is not its target unit ends
\* the run in that step with the units-mismatch error (or the error of a
\* close that failed on the way out), with no call made for the row and no
\* file written; and a run that has ended takes no further step.
C8_MismatchEndsRun ==
  [][/\ pc # "done"
     /\ pc = "row" =>
          LET conf == out_vars(model_conf, var.id)[i_row]
              unit == IF conf.scale.finite THEN conf.units ELSE data.units
          IN unit # conf.units =>
               /\ pc' = "done"
               /\ exc' \in {"UnitsMismatch", "OSError"}
               /\ exc' = "OSError" => io_faults' = io_faults + 1
               /\ disk' = disk /\ issued' = issued
               /\ RowCalls(<<i_file, i_var, i_row>>) = {}]_vars
C8_MismatchAfterOutput ==
  /\ pc = "done" /\ exc = "UnitsMismatch"
  /\ issued # <<>>
  /\ \E n \in DOMAIN disk : disk[n] # <<>>
  /\ i_file < nc_files

\* C9: a dataset with a time dimension none of whose stamps lies in
\* [start, end] is left without an error, with no file opened or written
\* and no call made, and the run goes on to the next dataset from the state
\* it was in before this one was read.
C9_EmptyWindowSkipped ==
  [][pc = "select" /\ "time" \in ds.dims
       /\ (\A i \in 1..Len(ds.time) :
             ds.time[i] < start_date \/ ds.time[i] > end_date)
     => /\ exc' = "none" /\ exc = "none"
        /\ UNCHANGED <<files, handles, disk, issued, io_faults, inputs>>
        /\ i_file' = i_file + 1
        /\ pc' = IF i_file < nc_files THEN "file" ELSE "exit"
        /\ ds' = NoDataset /\ var' = NoData /\ data' = NoData
        /\ i_var' = 0 /\ i_row' = 0 /\ i_time' = 0 /\ i_plev' = 0]_vars
C9_SlabsAfterSkip ==
  /\ pc = "done" /\ exc = "none"
  /\ 1 \in skipped
  /\ \E k \in Succeeded : issued[k].file = 2

\* C10: whenever no call is under way every file holds a multiple of five
\* records, and a call that raised has left no record in any file.
C10_NoPartialSlab ==
  /\ \A n \in DOMAIN disk : Len(disk[n]) % 5 = 0
  /\ \A k \in 1..Len(issued) :
       issued[k].exc # "none" => \A n \in DOMAIN disk : Positions(n, k) = {}
=============================================================================
